---- MODULE Spec2Model ----
(***************************************************************************)
(* wrapAPI: a configuration-driven HTTP client.  APIFetcher.fetchData      *)
(* resolves an endpoint name, params and body into a request; FetchHandler *)
(* sends it through the injected transport, retries on 429 and decodes     *)
(* the answer.                                                             *)
(*                                                                         *)
(* JavaScript values are modelled as follows.                              *)
(*   - a string on which the code does character work (path templates,     *)
(*     param keys, the Retry-After header) is a sequence of one-character  *)
(*     strings; other strings (endpoint names, methods) are TLA+ strings;  *)
(*   - `undefined`/`null` is None, a present value x is Some(x);           *)
(*   - an object literal is a sequence of [k, v] entries in insertion      *)
(*     order, which is the order Object.entries and the spread walk it.    *)
(***************************************************************************)
EXTENDS Integers, Sequences, FiniteSets, TLC

\* ------------------------------------------------------------------ bounds
\* Longest Retry-After header value the transport answers with.
MaxHeaderLen == 2
\* Largest retryTimes a configuration sets explicitly.
MaxRetry == 2
\* Most segments a path template is built from.
MaxSegs == 3

\* ------------------------------------------------------- optional values
None == <<>>
Some(x) == <<x>>
IsSome(o) == Len(o) = 1
Val(o) == o[1]

\* ------------------------------------------------------ object literals
Keys(o) == {o[i].k : i \in DOMAIN o}
Has(o, key) == \E i \in DOMAIN o : o[i].k = key
IndexOfKey(o, key) == CHOOSE i \in DOMAIN o : o[i].k = key
GetProp(o, key) == o[IndexOfKey(o, key)].v
\* o[key] = value: an existing key keeps its position, a new one is appended.
SetProp(o, key, value) ==
  IF Has(o, key)
    THEN [o EXCEPT ![IndexOfKey(o, key)] = [k |-> key, v |-> value]]
    ELSE Append(o, [k |-> key, v |-> value])

RECURSIVE SpreadFrom(_, _, _)
SpreadFrom(target, src, i) ==
  IF i > Len(src) THEN target
  ELSE SpreadFrom(SetProp(target, src[i].k, src[i].v), src, i + 1)
\* {...target, ...src}
Spread(target, src) == SpreadFrom(target, src, 1)

\* ---------------------------------------------------------------- strings
Digits == <<"0", "1", "2", "3", "4", "5", "6", "7", "8", "9">>
IsDigit(ch) == \E d \in DOMAIN Digits : Digits[d] = ch
DigitValue(ch) == (CHOOSE d \in DOMAIN Digits : Digits[d] = ch) - 1

RECURSIVE NumberToString(_)
\* Number.prototype.toString of a non-negative integer.
NumberToString(n) ==
  IF n < 10 THEN <<Digits[n + 1]>>
  ELSE NumberToString(n \div 10) \o <<Digits[(n % 10) + 1]>>

\* A JavaScript string or number.
Str(s) == [t |-> "string", s |-> s, n |-> 0]
Num(n) == [t |-> "number", s |-> <<>>, n |-> n]
NaN == [t |-> "nan", s |-> <<>>, n |-> 0]

\* value.toString()
toString(v) == IF v.t = "string" THEN v.s
             ELSE IF v.t = "number" THEN NumberToString(v.n)
             ELSE <<"N", "a", "N">>

\* s occurs in str at position i
MatchesAt(str, pat, i) ==
  /\ i + Len(pat) - 1 <= Len(str)
  /\ \A j \in 1..Len(pat) : str[i + j - 1] = pat[j]
Occurs(str, pat) == \E i \in 1..(Len(str) + 1) : MatchesAt(str, pat, i)
FirstIndex(str, pat) ==
  CHOOSE i \in 1..(Len(str) + 1) :
    /\ MatchesAt(str, pat, i)
    /\ \A j \in 1..(i - 1) : ~MatchesAt(str, pat, j)

\* String.prototype.replace(pattern: string, replacement): the FIRST
\* occurrence only.  (The replacement strings of the model hold no `$`.)
ReplaceFirst(str, pat, rep) ==
  IF ~Occurs(str, pat) THEN str
  ELSE LET i == FirstIndex(str, pat)
       IN  SubSeq(str, 1, i - 1) \o rep \o SubSeq(str, i + Len(pat), Len(str))

RECURSIVE DigitsValue(_)
\* The number a string of decimal digits denotes.
DigitsValue(s) ==
  IF s = <<>> THEN 0
  ELSE DigitsValue(SubSeq(s, 1, Len(s) - 1)) * 10 + DigitValue(s[Len(s)])

AllDigits(s) == \A i \in DOMAIN s : IsDigit(s[i])
\* The longest prefix of s made of decimal digits.
DigitPrefix(s) ==
  LET n == CHOOSE m \in 0..Len(s) :
             /\ \A i \in 1..m : IsDigit(s[i])
             /\ (m < Len(s) => ~IsDigit(s[m + 1]))
  IN  SubSeq(s, 1, n)

\* parseInt(s, 10): the digits s starts with, NaN when it starts with none.
\* (The strings of the model hold no sign and no white space.)
parseInt(s) ==
  IF DigitPrefix(s) = <<>> THEN NaN ELSE Num(DigitsValue(DigitPrefix(s)))

\* The number a value is coerced to by an arithmetic operator: a string of
\* digits is its value, the empty string 0, any other string NaN.
ToNumber(v) ==
  IF v.t # "string" THEN v
  ELSE IF ~AllDigits(v.s) THEN NaN
  ELSE Num(DigitsValue(v.s))

\* Times1000 without the factor: the delay taken as milliseconds.
Times1000Forgotten(v) ==
  LET x == ToNumber(v) IN IF x.t = "nan" THEN NaN ELSE Num(x.n)

\* retryAfter * 1000
Times1000(v) ==
  LET x == ToNumber(v) IN IF x.t = "nan" THEN NaN ELSE Num(x.n * 1000)

\* The delay setTimeout(resolve, ms) waits: a NaN delay is no delay.
TimeoutDelay(ms) == IF ms.t = "nan" THEN 0 ELSE ms.n

\* ---------------------------------------------------------- JSON.stringify
RECURSIVE StringifyEntries(_, _)
Quote(key) == <<"\"", key, "\"">>
StringifyNumber(n) == NumberToString(n)
\* A nested object, whose values are numbers.
StringifyEntries(o, i) ==
  IF i > Len(o) THEN <<>>
  ELSE (IF i > 1 THEN <<",">> ELSE <<>>)
       \o Quote(o[i].k) \o <<":">> \o StringifyNumber(o[i].v)
       \o StringifyEntries(o, i + 1)
StringifyValue(v) ==
  IF v.t = "number" THEN StringifyNumber(v.n)
  ELSE <<"{">> \o StringifyEntries(v.o, 1) \o <<"}">>
RECURSIVE StringifyBody(_, _)
StringifyBody(o, i) ==
  IF i > Len(o) THEN <<>>
  ELSE (IF i > 1 THEN <<",">> ELSE <<>>)
       \o Quote(o[i].k) \o <<":">> \o StringifyValue(o[i].v)
       \o StringifyBody(o, i + 1)
\* JSON.stringify(requestBody)
JSONstringify(o) == <<"{">> \o StringifyBody(o, 1) \o <<"}">>

\* A body value: a number, or a nested object of numbers.
BNum(n) == [t |-> "number", n |-> n, o |-> <<>>]
BObj(o) == [t |-> "object", n |-> 0, o |-> o]
E(key, value) == [k |-> key, v |-> value]

\* ------------------------------------------------------------ APIFetcher
\* retryTimes = 5 when the configuration sets none.
DefaultRetryTimes == 5

\* Names every object literal inherits from Object.prototype: obj[name] is
\* a function (truthy, without path, method, params or body) for them.
ObjectPrototypeKeys == {"toString", "valueOf", "hasOwnProperty"}

\* endpoints.reduce((map, endpoint) => { map[endpoint.name] = endpoint; ... }, {})
RECURSIVE ReduceEndpoints(_, _, _)
ReduceEndpoints(map, endpoints, i) ==
  IF i > Len(endpoints) THEN map
  ELSE ReduceEndpoints(SetProp(map, endpoints[i].name, endpoints[i]),
                       endpoints, i + 1)

\* new APIFetcher({apiBaseUrl, headers, endpoints, defaultParams, retryTimes})
APIFetcher(config) ==
  [apiBaseUrl    |-> config.apiBaseUrl,
   headers       |-> IF IsSome(config.headers) THEN Val(config.headers) ELSE <<>>,
   endpoints     |-> ReduceEndpoints(<<>>, config.endpoints, 1),
   defaultParams |-> IF IsSome(config.defaultParams)
                       THEN Val(config.defaultParams) ELSE <<>>,
   retryTimes    |-> IF IsSome(config.retryTimes)
                       THEN Val(config.retryTimes) ELSE DefaultRetryTimes]

\* new API(apiInfo): retryCount is handed on as retryTimes.
API(apiInfo) ==
  APIFetcher([apiBaseUrl    |-> apiInfo.apiBaseUrl,
              headers       |-> apiInfo.headers,
              endpoints     |-> apiInfo.endpoints,
              defaultParams |-> apiInfo.defaultParams,
              retryTimes    |-> apiInfo.retryCount])

\* this.endpoints[endpoint]: the registered definition, a member inherited
\* from Object.prototype, or undefined.
EndpointLookup(endpoints, endpoint) ==
  IF Has(endpoints, endpoint)
    THEN LET e == GetProp(endpoints, endpoint)
         IN  [found |-> "own", name |-> Some(e.name), path |-> Some(e.path),
              method |-> Some(e.method)]
  ELSE IF endpoint \in ObjectPrototypeKeys
    THEN [found |-> "inherited", name |-> Some(endpoint), path |-> None,
          method |-> None]
  ELSE [found |-> "none", name |-> None, path |-> None, method |-> None]

\* this.defaultParams[endpoint] || {} : an absent entry and an inherited
\* member both have neither params nor body.
DefaultParamsLookup(defaultParams, endpoint) ==
  IF Has(defaultParams, endpoint) THEN GetProp(defaultParams, endpoint)
  ELSE [params |-> None, body |-> None]

RECURSIVE FillFrom(_, _, _)
FillFrom(filledEndpoint, params, i) ==
  IF i > Len(params) THEN filledEndpoint
  ELSE FillFrom(ReplaceFirst(filledEndpoint, <<":">> \o params[i].k,
                             toString(params[i].v)),
                params, i + 1)

\* fillEndpointParams(endpoint, params = {}): the filled path, or a
\* TypeError when there is a param to fill into an undefined path.
fillEndpointParams(endpoint, params) ==
  LET entries == IF IsSome(params) THEN Val(params) ELSE <<>>
  IN  IF ~IsSome(endpoint)
        THEN [threw |-> Len(entries) > 0, value |-> None]
        ELSE [threw |-> FALSE,
              value |-> Some(FillFrom(Val(endpoint), entries, 1))]

\* setRequestBody spreading in the other order: {...providedBody, ...defaultBody}.
setRequestBodyDefaultWins(defaultParams, endpoint, providedBody) ==
  LET default == DefaultParamsLookup(defaultParams, endpoint).body
  IN  IF ~IsSome(providedBody) /\ ~IsSome(default) THEN None
      ELSE LET defaultBody == IF IsSome(default) THEN Val(default) ELSE <<>>
               provided == IF IsSome(providedBody) THEN Val(providedBody) ELSE <<>>
           IN  Some(Spread(Spread(<<>>, provided), defaultBody))

\* setRequestBody as providedBody || defaultBody: the default as a fallback.
setRequestBodyFallback(defaultParams, endpoint, providedBody) ==
  IF IsSome(providedBody) THEN providedBody
  ELSE DefaultParamsLookup(defaultParams, endpoint).body

\* setRequestBody(endpoint, providedBody)
setRequestBody(defaultParams, endpoint, providedBody) ==
  LET default == DefaultParamsLookup(defaultParams, endpoint).body
  IN  IF ~IsSome(providedBody) /\ ~IsSome(default) THEN None
      ELSE LET defaultBody == IF IsSome(default) THEN Val(default) ELSE <<>>
               provided == IF IsSome(providedBody) THEN Val(providedBody) ELSE <<>>
           IN  Some(Spread(Spread(<<>>, defaultBody), provided))

\* The spread in the other order, {...other, method, headers}: the
\* endpoint's method and the static headers always win.
SpreadOtherUnder(base, other) ==
  IF ~IsSome(other) THEN base
  ELSE [method  |-> base.method,
        headers |-> base.headers,
        body    |-> IF IsSome(Val(other).body) THEN Val(other).body ELSE base.body]

\* {method: theEndpoint.method, headers: this.headers, ...other}
SpreadOther(base, other) ==
  IF ~IsSome(other) THEN base
  ELSE LET o == Val(other)
       IN  [method  |-> IF IsSome(o.method) THEN o.method ELSE base.method,
            headers |-> IF IsSome(o.headers) THEN o.headers ELSE base.headers,
            body    |-> IF IsSome(o.body) THEN o.body ELSE base.body]

\* theEndpoint.method !== 'GET' && requestBody without the method test.
CarriesBodyAnyMethod(method, requestBody) == IsSome(requestBody)

\* theEndpoint.method !== 'GET' && requestBody
CarriesBody(method, requestBody) ==
  method # Some("GET") /\ IsSome(requestBody)

\* The params resolved as {...defaultParams.params, ...params}.
endpointParamsMerged(params, defaultParams) ==
  IF ~IsSome(params) THEN defaultParams.params
  ELSE IF ~IsSome(defaultParams.params) THEN params
  ELSE Some(Spread(Spread(<<>>, Val(defaultParams.params)), Val(params)))

\* const endpointParams = params || defaultParams.params: an object, even
\* an empty one, is truthy.
endpointParams(params, defaultParams) ==
  IF IsSome(params) THEN params ELSE defaultParams.params

\* `${value}` of a string that may be undefined
Interpolate(s) ==
  IF IsSome(s) THEN Val(s)
  ELSE <<"u", "n", "d", "e", "f", "i", "n", "e", "d">>

\* fetchData({endpoint, body, params, other}) up to the construction of the
\* FetchHandler: what it returns or throws at once, or the request it builds.
fetchData(api, args) ==
  LET defaultParams  == DefaultParamsLookup(api.defaultParams, args.endpoint)
      theEndpoint    == EndpointLookup(api.endpoints, args.endpoint)
      filled         == fillEndpointParams(theEndpoint.path,
                          endpointParams(args.params, defaultParams))
      requestBody    == setRequestBody(api.defaultParams, Val(theEndpoint.name),
                                       args.body)
      fetchParams    == SpreadOther([method  |-> theEndpoint.method,
                                     headers |-> Some(api.headers),
                                     body    |-> None], args.other)
      withBody       == IF CarriesBody(theEndpoint.method, requestBody)
                          THEN [fetchParams EXCEPT
                                  !.body = Some(JSONstringify(Val(requestBody)))]
                          ELSE fetchParams
  IN  IF theEndpoint.found = "none"
        THEN [outcome |-> "notFound", filledEndpoint |-> None,
              requestBody |-> None, request |-> None]
      ELSE IF filled.threw
        THEN [outcome |-> "threw", filledEndpoint |-> None,
              requestBody |-> None, request |-> None]
      ELSE [outcome |-> "sent", filledEndpoint |-> filled.value,
            requestBody |-> requestBody,
            request |-> Some([url |-> api.apiBaseUrl \o Interpolate(filled.value),
                              options |-> withBody])]

\* ---------------------------------------------------------- FetchHandler
\* What an invocation resolves with or throws.
Pending == [kind |-> "pending", endpoint |-> "", error |-> "", status |-> 0,
            statusText |-> "", decoded |-> "", text |-> ""]
Undefined == [Pending EXCEPT !.kind = "undefined"]
\* {error: 'endpoint not found', endpoint: endpoint}
NotFound(endpoint) ==
  [Pending EXCEPT !.kind = "value", !.error = "endpoint not found",
                  !.endpoint = endpoint]
\* new Error(`${prefix}: ${response.status} ${response?.statusText}`)
ErrorOf(prefix, response) ==
  [Pending EXCEPT !.kind = "thrown", !.error = prefix,
                  !.status = response.status,
                  !.statusText = response.statusText]
TypeError == [Pending EXCEPT !.kind = "thrown", !.error = "TypeError"]
Decoded(how, text) ==
  [Pending EXCEPT !.kind = "value", !.decoded = how, !.text = text]

\* response.ok
Ok(response) == response.status \in 200..299
\* A header value that passes `if (retryAfter)`: present and not empty.
Truthy(header) == IsSome(header) /\ Val(header) # <<>>

\* 'application/json'
ApplicationJson ==
  <<"a", "p", "p", "l", "i", "c", "a", "t", "i", "o", "n", "/",
    "j", "s", "o", "n">>

\* contentType && contentType.indexOf('application/json') !== -1: a
\* case-sensitive substring search in a present, non-empty header.
IsJson(contentType) ==
  /\ Truthy(contentType)
  /\ Occurs(Val(contentType), ApplicationJson)

\* getResponseObject with the content type never looked at: always text.
getResponseObjectAlwaysText(response) ==
  Decoded("text", response.body.text)

\* getResponseObject(response): the parsed JSON, null when parsing throws,
\* the text for any other content type.
getResponseObject(response) ==
  IF IsJson(response.contentType)
    THEN IF response.body.parses THEN Decoded("json", response.body.text)
         ELSE Decoded("null", "")
    ELSE Decoded("text", response.body.text)

Resolve(h, value) == [h EXCEPT !.pc = "resolved", !.result = value]
Reject(h, error) == [h EXCEPT !.pc = "rejected", !.result = error]

\* retryRecursively awaiting a promise nothing resolves, as in
\* new Promise((resolve) => setTimeout(() => {}, retryAfter * 1000)).
retryRecursivelyNeverResolved(h, retryAfter, retryCount) ==
  IF retryCount > 0
    THEN [h EXCEPT !.pc = "waiting", !.retryCount = retryCount,
                   !.timerMs = TimeoutDelay(Times1000(retryAfter))]
    ELSE Resolve([h EXCEPT !.retryCount = retryCount], Undefined)

\* retryRecursively resending while retryCount >= 0: one resend too many.
retryRecursivelyOffByOne(h, retryAfter, retryCount) ==
  IF retryCount >= 0
    THEN [h EXCEPT !.pc = "sleeping", !.retryCount = retryCount,
                   !.timerMs = TimeoutDelay(Times1000(retryAfter))]
    ELSE Resolve([h EXCEPT !.retryCount = retryCount], Undefined)

\* retryRecursively(response, retryAfter, retryCount) up to its first await:
\* it sets the timer when budget is left and resolves undefined otherwise.
retryRecursively(h, retryAfter, retryCount) ==
  IF retryCount > 0
    THEN [h EXCEPT !.pc = "sleeping", !.retryCount = retryCount,
                   !.timerMs = TimeoutDelay(Times1000(retryAfter))]
    ELSE Resolve([h EXCEPT !.retryCount = retryCount], Undefined)

\* fetch() from the first response on.
fetch(h, response) ==
  IF ~Ok(response)
    THEN IF response.status = 429
           THEN IF ~Truthy(response.retryAfter)
                  THEN Reject(h, ErrorOf("APIFetcher - retry parse failure",
                                         response))
                  ELSE retryRecursively(h, Str(Val(response.retryAfter)),
                                        h.retryTimes)
           ELSE Reject(h, ErrorOf("APIFetcher", response))
    ELSE Resolve(h, getResponseObject(response))

\* retryResponse throwing once the budget is used up instead of resolving.
retryResponseThrowing(h, response) ==
  IF Ok(response) THEN Resolve(h, getResponseObject(response))
  ELSE IF response.status = 429 /\ Truthy(response.retryAfter)
    THEN IF h.retryCount - 1 > 0
           THEN retryRecursively(h, parseInt(Val(response.retryAfter)),
                                 h.retryCount - 1)
           ELSE Reject([h EXCEPT !.retryCount = h.retryCount - 1],
                       ErrorOf("APIFetcher", response))
  ELSE Resolve(h, Undefined)

\* retryResponse going on after any response that is not ok, with or
\* without a 429 and a Retry-After header.
retryResponseRetryAny(h, response) ==
  IF Ok(response) THEN Resolve(h, getResponseObject(response))
  ELSE retryRecursively(h, IF Truthy(response.retryAfter)
                             THEN parseInt(Val(response.retryAfter)) ELSE NaN,
                        h.retryCount - 1)

\* retryRecursively from the response of its resend on.
retryResponse(h, response) ==
  IF Ok(response) THEN Resolve(h, getResponseObject(response))
  ELSE IF response.status = 429 /\ Truthy(response.retryAfter)
    THEN retryRecursively(h, parseInt(Val(response.retryAfter)),
                          h.retryCount - 1)
  ELSE Resolve(h, Undefined)

\* ------------------------------------------------------------------ API
\* The values of the API instance's own properties: the APIFetcher and the
\* closures createEndpointMethod returns.
FetcherMember == [kind |-> "fetcher", endpointName |-> ""]
createEndpointMethod(endpointName) ==
  [kind |-> "method", endpointName |-> endpointName]

RECURSIVE AssignMethods(_, _, _)
\* apiInfo.endpoints.forEach((endpoint) => { this[endpoint.name] =
\*   this.createEndpointMethod(endpoint.name) }).  The configurations of
\* the model register no endpoint named createEndpointMethod, so the
\* creator is the prototype's method at every iteration.
AssignMethods(this, endpoints, i) ==
  IF i > Len(endpoints) THEN this
  ELSE AssignMethods(SetProp(this, endpoints[i].name,
                             createEndpointMethod(endpoints[i].name)),
                     endpoints, i + 1)

\* The own properties of the instance once the constructor has run:
\* this.api, then one assignment per endpoint, in order.
APIInstance(apiInfo) ==
  AssignMethods(<<E("api", FetcherMember)>>, apiInfo.endpoints, 1)

\* The argument fetchData gets for an endpoint name and the caller's options.
FetchDataArgs(endpointName, options) ==
  [endpoint |-> endpointName, body |-> options.body,
   params |-> options.params, other |-> options.other]

\* this[name](options): the argument the closure passes to
\* this.api.fetchData, or nothing when the call throws a TypeError
\* because this[name] is no function or this.api is no APIFetcher.
EndpointMethodCall(this, name, options) ==
  IF /\ Has(this, name)
     /\ GetProp(this, name).kind = "method"
     /\ GetProp(this, "api").kind = "fetcher"
    THEN Some(FetchDataArgs(GetProp(this, name).endpointName, options))
    ELSE None

\* ------------------------------------------------------------------ state
VARIABLES
  apiInfo,    \* the configuration the API instance was built from
  api,        \* the APIFetcher the constructor built
  instance,   \* the own properties of the API instance
  transport,  \* the responses the injected transport may answer with
  inv         \* the invocations of the instance's endpoint methods

vars == <<apiInfo, api, instance, transport, inv>>

CallIds == {"c1", "c2"}

\* An invocation that has not started: args are what the caller will pass.
NewCall(args, pc) ==
  [pc |-> pc, args |-> args, filledEndpoint |-> None, requestBody |-> None,
   request |-> None, retryTimes |-> 0, retryCount |-> 0, timerMs |-> 0,
   response |-> None, wire |-> None, sends |-> 0, result |-> Pending,
   called |-> None, theApiName |-> None]

\* this.fetchMethod() with a body that goes out once: a resend carries the
\* url, method and headers of the request and no body.
SendBodyOnce(h) ==
  [h EXCEPT !.wire = IF h.sends = 0 THEN h.request
                     ELSE Some([Val(h.request) EXCEPT !.options.body = None]),
            !.sends = h.sends + 1]

\* this.fetchMethod(): the request of the closure goes to the transport.
Send(h) == [h EXCEPT !.wire = h.request, !.sends = h.sends + 1]

\* A call of the endpoint method instance[name](options), or of fetchData
\* of the fetcher itself: fetchData, new FetchHandler and fetcher.fetch()
\* up to the first transport call.
Invoke(c) ==
  /\ inv[c].pc = "idle"
  /\ LET called == IF inv[c].args.via = "method"
                     THEN EndpointMethodCall(instance, inv[c].args.endpoint,
                                             inv[c].args)
                     ELSE Some(FetchDataArgs(inv[c].args.endpoint, inv[c].args))
         h == [inv[c] EXCEPT !.called = called]
         r == fetchData(api, Val(called))
     IN  inv' = [inv EXCEPT ![c] =
           IF called = None THEN Reject(h, TypeError)
           ELSE IF r.outcome = "notFound"
             THEN Resolve(h, NotFound(Val(called).endpoint))
           ELSE IF r.outcome = "threw" THEN Reject(h, TypeError)
           ELSE Send([h EXCEPT !.pc = "awaitFirst",
                               !.filledEndpoint = r.filledEndpoint,
                               !.requestBody = r.requestBody,
                               !.request = r.request,
                               !.retryTimes = api.retryTimes,
                               !.retryCount = api.retryTimes])]
  /\ UNCHANGED <<apiInfo, api, instance, transport>>

\* The transport answers the first send.
FirstResponse(c) ==
  /\ inv[c].pc = "awaitFirst"
  /\ \E response \in transport :
       inv' = [inv EXCEPT ![c] =
                 fetch([inv[c] EXCEPT !.wire = None,
                                      !.response = Some(response)], response)]
  /\ UNCHANGED <<apiInfo, api, instance, transport>>

\* The timer elapsing with a retry budget kept on the instance: the resend
\* of one invocation uses up budget of every other.
TimerElapsedShared(c) ==
  /\ inv[c].pc = "sleeping"
  /\ inv' = [d \in CallIds |->
               IF d = c THEN Send([inv[c] EXCEPT !.pc = "awaitRetry"])
               ELSE [inv[d] EXCEPT !.retryCount = inv[d].retryCount - 1]]
  /\ UNCHANGED <<apiInfo, api, instance, transport>>

\* The timer of retryRecursively elapses and the request is sent again.
TimerElapsed(c) ==
  /\ inv[c].pc = "sleeping"
  /\ inv' = [inv EXCEPT ![c] =
               Send([inv[c] EXCEPT !.pc = "awaitRetry"])]
  /\ UNCHANGED <<apiInfo, api, instance, transport>>

\* The answer to a resend with the budget counted down on the fetcher
\* itself (this.retryTimes--) instead of in the handler's own frames.
RetryResponseCountingDown(c) ==
  /\ inv[c].pc = "awaitRetry"
  /\ \E response \in transport :
       inv' = [inv EXCEPT ![c] =
                 retryResponse([inv[c] EXCEPT !.wire = None,
                                              !.response = Some(response)],
                               response)]
  /\ api' = [api EXCEPT !.retryTimes = api.retryTimes - 1]
  /\ UNCHANGED <<apiInfo, instance, transport>>

\* The transport answers a resend.
RetryResponse(c) ==
  /\ inv[c].pc = "awaitRetry"
  /\ \E response \in transport :
       inv' = [inv EXCEPT ![c] =
                 retryResponse([inv[c] EXCEPT !.wire = None,
                                              !.response = Some(response)],
                               response)]
  /\ UNCHANGED <<apiInfo, api, instance, transport>>

Next ==
  \E c \in CallIds :
    \/ Invoke(c)
    \/ FirstResponse(c)
    \/ TimerElapsed(c)
    \/ RetryResponse(c)

\* ------------------------------------------------- transport repertoires
SeqsUpTo(S, n) == UNION {[1..m -> S] : m \in 0..n}
\* Retry-After values: delay-seconds such as "0", "2", "20", and values
\* that are no number of seconds ("", "s", "2s").
HeaderAlphabet == {"0", "2", "s"}
HeaderValues == SeqsUpTo(HeaderAlphabet, MaxHeaderLen)

Response(status, statusText, retryAfter, contentType, text, parses) ==
  [status |-> status, statusText |-> statusText, retryAfter |-> retryAfter,
   contentType |-> contentType, body |-> [text |-> text, parses |-> parses]]

\* Content types: application/json alone, with a charset parameter, as the
\* prefix of another media type (application/json-seq), in another case,
\* and text/plain.
JsonUtf8 == ApplicationJson \o <<";", " ", "c", "h", "a", "r", "s", "e", "t",
                                 "=", "u", "t", "f", "-", "8">>
JsonSeq == ApplicationJson \o <<"-", "s", "e", "q">>
UpperJson ==
  <<"A", "p", "p", "l", "i", "c", "a", "t", "i", "o", "n", "/",
    "J", "S", "O", "N">>
TextPlain == <<"t", "e", "x", "t", "/", "p", "l", "a", "i", "n">>

JsonOk == Response(200, "OK", None, Some(ApplicationJson), "{}", TRUE)
JsonBad == Response(200, "OK", None, Some(JsonUtf8), "{", FALSE)
JsonSeqOk == Response(200, "OK", None, Some(JsonSeq), "{}{}", FALSE)
UpperJsonOk == Response(200, "OK", None, Some(UpperJson), "{}", TRUE)
TextOk == Response(200, "OK", None, Some(TextPlain), "hello", FALSE)
PlainOk == Response(201, "Created", None, None, "", FALSE)
TooMany(retryAfter) ==
  Response(429, "Too Many Requests", retryAfter, None, "", FALSE)
ServerError ==
  Response(500, "Internal Server Error", None, Some(TextPlain), "", FALSE)
NotFound404 == Response(404, "Not Found", Some(<<"2">>), None, "", FALSE)

OkResponses == {JsonOk, JsonBad, JsonSeqOk, UpperJsonOk, TextOk, PlainOk}
RateLimitedResponses == {TooMany(Some(v)) : v \in HeaderValues \ {<<>>}}
Responses ==
  OkResponses \cup RateLimitedResponses
    \cup {TooMany(None), TooMany(Some(<<>>)), ServerError, NotFound404}
\* One response of each class.
FewResponses == {JsonOk, TooMany(Some(<<"0">>)), TooMany(None), ServerError}

\* --------------------------------------------------------- configurations
GetPage == [name |-> "getPage", path |-> <<"p", "/", ":", "i", "d">>,
            method |-> "GET"]
Search == [name |-> "search", path |-> <<"s">>, method |-> "POST"]
Update == [name |-> "update", path |-> <<"p", "/", ":", "i", "d">>,
           method |-> "PATCH"]
BaseUrl == <<"h", "/">>
StaticHeaders == <<E("Authorization", "Bearer t"), E("Version", "1")>>

\* The arguments of a call of fetchData and of a call of the endpoint
\* method named `endpoint`.
Args(endpoint, body, params, other) ==
  [via |-> "fetchData", endpoint |-> endpoint, body |-> body,
   params |-> params, other |-> other]
MethodArgs(endpoint, body, params, other) ==
  [Args(endpoint, body, params, other) EXCEPT !.via = "method"]

\* Instances built from `infos`, a transport answering from one of
\* `repertoires`, and one invocation (c1) with arguments from `args` not yet
\* started; the other call id is never started.
InitWith(infos, args, repertoires) ==
  /\ apiInfo \in infos
  /\ api = API(apiInfo)
  /\ instance = APIInstance(apiInfo)
  /\ transport \in repertoires
  /\ \E a \in args :
       inv = [c \in CallIds |->
                IF c = "c1" THEN NewCall(a, "idle") ELSE NewCall(a, "off")]

\* The retry pipeline: every retry budget, every response.
RetryInfos ==
  {[apiBaseUrl |-> BaseUrl, headers |-> Some(StaticHeaders),
    endpoints |-> <<GetPage, Search>>, defaultParams |-> None,
    retryCount |-> n] : n \in {None} \cup {Some(k) : k \in 0..MaxRetry}}
RetryArgs ==
  {Args("getPage", None, Some(<<E(<<"i", "d">>, Str(<<"4", "2">>))>>), None),
   Args("search", Some(<<E("query", BNum(1))>>), None, None)}

Init == InitWith(RetryInfos, RetryArgs, {Responses, RateLimitedResponses})
Spec == Init /\ [][Next]_vars

\* The promises the code awaits settle: every transport call is answered
\* (await this.fetchMethod()) and every timer set by retryRecursively
\* elapses.  Nothing obliges a caller to start an invocation.
Fairness ==
  \A c \in CallIds :
    /\ WF_vars(FirstResponse(c))
    /\ WF_vars(TimerElapsed(c))
    /\ WF_vars(RetryResponse(c))
SpecLive == Init /\ [][Next]_vars /\ Fairness

\* The request builder: registered and unregistered names, caller and
\* default bodies, `other` options.
NestedX == BObj(<<E("x", 1)>>)
NestedY == BObj(<<E("y", 2)>>)
DefaultBodies ==
  {<<E("a", BNum(1)), E("b", NestedX)>>, <<E("a", BNum(1))>>, <<>>}
CallerBodies ==
  {<<E("b", NestedY)>>, <<E("a", BNum(2))>>, <<>>,
   <<E("c", BNum(3)), E("a", BNum(2)), E("b", NestedX)>>}
IdParams == <<E(<<"i", "d">>, Str(<<"4", "2">>))>>
BodyDefaultParams ==
  {None} \cup
  {Some(<<E("search", [params |-> None, body |-> Some(b)]),
          E("getPage", [params |-> Some(IdParams), body |-> Some(b)])>>)
     : b \in DefaultBodies}
BodyInfos ==
  {[apiBaseUrl |-> BaseUrl, headers |-> Some(StaticHeaders),
    endpoints |-> <<GetPage, Search, Update>>, defaultParams |-> d,
    retryCount |-> Some(1)] : d \in BodyDefaultParams}
NoOther == [method |-> None, headers |-> None, body |-> None]
Others ==
  {None,
   Some([NoOther EXCEPT !.headers = Some(<<E("Accept", "text/plain")>>)]),
   Some([NoOther EXCEPT !.body = Some(<<"raw">>)]),
   Some([NoOther EXCEPT !.method = Some("GET")])}
EndpointNames == {"getPage", "search", "update", "nope", "", "toString"}
BodyArgs ==
  {Args(e, b, p, o) : e \in EndpointNames,
                      b \in {None} \cup {Some(x) : x \in CallerBodies},
                      p \in {None, Some(IdParams)},
                      o \in Others}

InitBody == InitWith(BodyInfos, BodyArgs, {FewResponses})
SpecBody == InitBody /\ [][Next]_vars

\* Path filling: templates of up to MaxSegs segments, params in every
\* order of their keys.
Segments == {<<"/">>, <<":", "i", "d">>, <<":", "i", "d", "x">>, <<"a">>}
RECURSIVE Concat(_)
Concat(parts) ==
  IF parts = <<>> THEN <<>> ELSE Head(parts) \o Concat(Tail(parts))
Templates == {Concat(parts) : parts \in SeqsUpTo(Segments, MaxSegs)}
ParamKeys == {<<"i", "d">>, <<"i", "d", "x">>}
ParamValues == {Num(7), Str(<<"4", "2">>)}
ParamsObjects ==
  {<<>>}
    \cup {<<E(key, v)>> : key \in ParamKeys, v \in ParamValues}
    \cup {<<E(q[1], q[3]), E(q[2], q[4])>> :
            q \in {x \in ParamKeys \X ParamKeys \X ParamValues \X ParamValues :
                     x[1] # x[2]}}
PathInfos ==
  {[apiBaseUrl |-> BaseUrl, headers |-> None,
    endpoints |-> <<[name |-> "ep", path |-> t, method |-> "GET"]>>,
    defaultParams |-> d, retryCount |-> Some(1)]
     : t \in Templates,
       d \in {None,
              Some(<<E("ep", [params |-> Some(<<E(<<"i", "d">>, Num(9))>>),
                              body |-> None])>>)}}
PathArgs ==
  {Args("ep", None, p, None) : p \in {None} \cup {Some(x) : x \in ParamsObjects}}

InitPath == InitWith(PathInfos, PathArgs, {FewResponses})
SpecPath == InitPath /\ [][Next]_vars

\* Two invocations of one instance in flight together, every interleaving
\* of their steps.
ConcurrentInfos ==
  {[apiBaseUrl |-> BaseUrl, headers |-> Some(StaticHeaders),
    endpoints |-> <<GetPage, Search>>, defaultParams |-> None,
    retryCount |-> Some(k)] : k \in 1..MaxRetry}
InitConcurrent ==
  /\ apiInfo \in ConcurrentInfos
  /\ api = API(apiInfo)
  /\ instance = APIInstance(apiInfo)
  /\ transport \in {FewResponses, {TooMany(Some(<<"0">>)), TooMany(Some(<<"2">>))}}
  /\ \E a1 \in RetryArgs, a2 \in RetryArgs :
       inv = [c \in CallIds |->
                IF c = "c1" THEN NewCall(a1, "idle") ELSE NewCall(a2, "idle")]
SpecConcurrent == InitConcurrent /\ [][Next]_vars

\* The endpoint methods: configurations that register an endpoint named
\* like the instance's own field, or one name twice, and calls of the
\* methods by name.
ApiEndpoint == [name |-> "api", path |-> <<"a">>, method |-> "GET"]
SearchAgain == [name |-> "search", path |-> <<"s", "2">>, method |-> "POST"]
MethodInfos ==
  {[apiBaseUrl |-> BaseUrl, headers |-> Some(StaticHeaders),
    endpoints |-> es, defaultParams |-> None, retryCount |-> Some(1)]
     : es \in {<<GetPage, Search>>, <<GetPage, ApiEndpoint>>,
               <<ApiEndpoint, Search>>, <<Search, GetPage, SearchAgain>>}}
MethodNames == {"getPage", "search", "api", "nope"}
MethodCalls ==
  {MethodArgs(e, b, p, o) :
     e \in MethodNames,
     b \in {None, Some(<<E("a", BNum(2))>>)},
     p \in {None, Some(IdParams)},
     o \in {None, Some([NoOther EXCEPT
                          !.headers = Some(<<E("Accept", "text/plain")>>)])}}

InitMethods == InitWith(MethodInfos, MethodCalls, {FewResponses})
SpecMethods == InitMethods /\ [][Next]_vars

\* --------------------------------------- api_wrapper.ts: several APIs
\* The wrapper of api_wrapper.ts keeps one APIFetcher per API definition in
\* this.apis and has one method, interact.  Its APIFetcher resolves the
\* endpoint, the params and the body with the same code as above, has no
\* `other` options and no retry, and returns response.json().

\* new APIFetcher({apiBaseUrl, headers, endpoints, defaultParams})
WrapperFetcher(info) ==
  [apiBaseUrl    |-> info.apiBaseUrl,
   headers       |-> IF IsSome(info.headers) THEN Val(info.headers) ELSE <<>>,
   endpoints     |-> ReduceEndpoints(<<>>, info.endpoints, 1),
   defaultParams |-> IF IsSome(info.defaultParams)
                       THEN Val(info.defaultParams) ELSE <<>>]

\* The constructor's argument: one APIInfo, an array of them, or a record
\* of them under keys of the integrator's choice.
SingleInfo(info) == [kind |-> "single", keys |-> <<>>, items |-> <<info>>]
ArrayOfInfos(items) == [kind |-> "array", keys |-> <<>>, items |-> items]
RecordOfInfos(keys, items) == [kind |-> "record", keys |-> keys, items |-> items]

\* The property names of an array: its indices.
IndexKeys == <<"0", "1", "2">>

\* Object.entries(this.handleType(apiInfoOrInfos)): an object with an
\* apiBaseUrl is wrapped as {default: it}; anything else is taken as the
\* record, an array under its indices.  (The records of the model have no
\* key 'apiBaseUrl' and no integer-like key, so the entries come in the
\* order given.)
handleType(apiInfoOrInfos) ==
  IF apiInfoOrInfos.kind = "single"
    THEN <<E("default", apiInfoOrInfos.items[1])>>
    ELSE [i \in DOMAIN apiInfoOrInfos.items |->
            E(IF apiInfoOrInfos.kind = "array" THEN IndexKeys[i]
              ELSE apiInfoOrInfos.keys[i],
              apiInfoOrInfos.items[i])]

\* this.apis once the constructor has run.
Apis(apiInfoOrInfos) ==
  LET apiInfos == handleType(apiInfoOrInfos)
  IN  [i \in DOMAIN apiInfos |-> E(apiInfos[i].k, WrapperFetcher(apiInfos[i].v))]

\* const theApiName = apiName || Object.keys(this.apis)[0]
TheApiName(apis, apiName) ==
  IF IsSome(apiName) /\ Val(apiName) # "" THEN apiName
  ELSE IF Len(apis) > 0 THEN Some(apis[1].k)
  ELSE None

\* fetchData({endpoint, body, params}) of the wrapper's APIFetcher up to
\* the transport call.
wrapperFetchData(fetcher, args) ==
  LET defaultParams == DefaultParamsLookup(fetcher.defaultParams, args.endpoint)
      theEndpoint   == EndpointLookup(fetcher.endpoints, args.endpoint)
      filled        == fillEndpointParams(theEndpoint.path,
                         endpointParams(args.params, defaultParams))
      requestBody   == setRequestBody(fetcher.defaultParams,
                                      Val(theEndpoint.name), args.body)
      body          == IF theEndpoint.method # Some("GET") /\ IsSome(requestBody)
                         THEN Some(JSONstringify(Val(requestBody))) ELSE None
  IN  IF theEndpoint.found = "none"
        THEN [outcome |-> "notFound", filledEndpoint |-> None,
              requestBody |-> None, request |-> None]
      ELSE IF filled.threw
        THEN [outcome |-> "threw", filledEndpoint |-> None,
              requestBody |-> None, request |-> None]
      ELSE [outcome |-> "sent", filledEndpoint |-> filled.value,
            requestBody |-> requestBody,
            request |-> Some([url |-> fetcher.apiBaseUrl \o Interpolate(filled.value),
                              options |-> [method  |-> theEndpoint.method,
                                           headers |-> Some(fetcher.headers),
                                           body    |-> body]])]

SyntaxError == [Pending EXCEPT !.kind = "thrown", !.error = "SyntaxError"]

\* interact({apiName, endpoint_name, body, params}) up to the transport
\* call: a TypeError when this.apis has no fetcher under theApiName.
Interact(c) ==
  /\ inv[c].pc = "idle"
  /\ LET apis == GetProp(instance, "apis")
         theApiName == TheApiName(apis, inv[c].args.apiName)
         found == IsSome(theApiName) /\ Has(apis, Val(theApiName))
         called == [endpoint |-> inv[c].args.endpoint_name,
                    body |-> inv[c].args.body, params |-> inv[c].args.params]
         r == wrapperFetchData(GetProp(apis, Val(theApiName)), called)
         h == [inv[c] EXCEPT !.theApiName = IF found THEN theApiName ELSE None,
                             !.called = IF found THEN Some(called) ELSE None]
     IN  inv' = [inv EXCEPT ![c] =
           IF ~found THEN Reject(h, TypeError)
           ELSE IF r.outcome = "notFound"
             THEN Resolve(h, NotFound(called.endpoint))
           ELSE IF r.outcome = "threw" THEN Reject(h, TypeError)
           ELSE Send([h EXCEPT !.pc = "awaitJson",
                               !.filledEndpoint = r.filledEndpoint,
                               !.requestBody = r.requestBody,
                               !.request = r.request])]
  /\ UNCHANGED <<apiInfo, api, instance, transport>>

\* The transport answers: fetchData returns response.json() whatever the
\* status, which rejects when the body does not parse.
InteractResponse(c) ==
  /\ inv[c].pc = "awaitJson"
  /\ \E response \in transport :
       inv' = [inv EXCEPT ![c] =
                 LET h == [inv[c] EXCEPT !.wire = None,
                                         !.response = Some(response)]
                 IN  IF response.body.parses
                       THEN Resolve(h, Decoded("json", response.body.text))
                       ELSE Reject(h, SyntaxError)]
  /\ UNCHANGED <<apiInfo, api, instance, transport>>

NextWrapper == \E c \in CallIds : Interact(c) \/ InteractResponse(c)

\* Two API definitions with a name each, given alone, as an array, as a
\* record under their names and as a record under other keys.
NotionInfo ==
  [name |-> Some("NotionAPI"), apiBaseUrl |-> <<"n", "/">>,
   headers |-> Some(StaticHeaders), endpoints |-> <<GetPage, Search>>,
   defaultParams |-> None]
OpenAIInfo ==
  [name |-> Some("OpenAI"), apiBaseUrl |-> <<"o", "/">>,
   headers |-> None, endpoints |-> <<GetPage, Search>>,
   defaultParams |-> None]
WrapperInputs ==
  {SingleInfo(NotionInfo),
   ArrayOfInfos(<<NotionInfo, OpenAIInfo>>),
   ArrayOfInfos(<<OpenAIInfo, NotionInfo>>),
   RecordOfInfos(<<"NotionAPI", "OpenAI">>, <<NotionInfo, OpenAIInfo>>),
   RecordOfInfos(<<"OpenAI", "NotionAPI">>, <<OpenAIInfo, NotionInfo>>),
   RecordOfInfos(<<"notion", "openai">>, <<NotionInfo, OpenAIInfo>>)}
InteractArgs(apiName, endpoint_name, body, params) ==
  [apiName |-> apiName, endpoint_name |-> endpoint_name, body |-> body,
   params |-> params]
InteractCalls ==
  {InteractArgs(a, e, b, p) :
     a \in {None, Some("NotionAPI"), Some("OpenAI"), Some("1"), Some("default")},
     e \in {"getPage", "search", "nope"},
     b \in {None, Some(<<E("a", BNum(2))>>)},
     p \in {None, Some(IdParams)}}

InitWrapper ==
  /\ apiInfo \in WrapperInputs
  /\ api = None
  /\ instance = <<E("apis", Apis(apiInfo))>>
  /\ transport = FewResponses
  /\ \E a \in InteractCalls :
       inv = [c \in CallIds |->
                IF c = "c1" THEN NewCall(a, "idle") ELSE NewCall(a, "off")]
SpecWrapper == InitWrapper /\ [][NextWrapper]_vars

\* ------------------------------------------------------------ properties
Finished(h) == h.pc \in {"resolved", "rejected"}
Idle(c) == ~ENABLED (Invoke(c) \/ FirstResponse(c) \/ TimerElapsed(c)
                       \/ RetryResponse(c))

\* C1: one invocation calls the transport at most 1 + retryTimes times,
\* retryTimes being 5 unless configured; the budget of the retry in progress
\* is retryTimes less the resends already accounted, and never negative.
RetryBudgetBounded ==
  \A c \in CallIds :
    LET h == inv[c] IN
    h.sends > 0 =>
      /\ h.retryTimes = IF IsSome(apiInfo.retryCount)
                          THEN Val(apiInfo.retryCount) ELSE 5
      /\ h.sends <= 1 + h.retryTimes
      /\ h.retryCount >= 0
      /\ h.pc = "awaitFirst" => h.sends = 1 /\ h.retryCount = h.retryTimes
      /\ h.pc = "sleeping" => /\ h.retryCount >= 1
                              /\ h.retryCount = h.retryTimes - (h.sends - 1)
      /\ h.pc = "awaitRetry" => /\ h.retryCount >= 1
                                /\ h.retryCount = h.retryTimes - (h.sends - 2)
\* The default budget used up: six sends, nothing left.
RetryBudgetBoundedWitness ==
  \E c \in CallIds :
    /\ apiInfo.retryCount = None
    /\ inv[c].sends = 6
    /\ inv[c].retryCount = 0
    /\ inv[c].pc = "resolved"

\* C2: when every response is a 429 with a Retry-After header, a finished
\* invocation has made exactly retryTimes resends, has resolved (not thrown)
\* with undefined, has no request in flight and takes no further step.
ExhaustionResolvesEmpty ==
  \A c \in CallIds :
    LET h == inv[c] IN
    /\ \A r \in transport : r.status = 429 /\ IsSome(r.retryAfter)
                            /\ Val(r.retryAfter) # <<>>
    /\ Finished(h)
    => /\ h.pc = "resolved"
       /\ h.result.kind = "undefined"
       /\ h.sends = 1 + h.retryTimes
       /\ h.wire = None
       /\ Idle(c)
ExhaustionResolvesEmptyWitness ==
  \E c \in CallIds :
    /\ \A r \in transport : r.status = 429 /\ IsSome(r.retryAfter)
    /\ inv[c].pc = "resolved"
    /\ inv[c].retryTimes = 2
    /\ inv[c].sends = 3
    /\ inv[c].result.kind = "undefined"

\* C3: an invocation whose latest response is not ok and not a 429 has
\* thrown an error carrying that response's status code and status text.
NonOkThrows ==
  \A c \in CallIds :
    LET h == inv[c] IN
    /\ Finished(h)
    /\ IsSome(h.response)
    /\ Val(h.response).status \notin 200..299
    /\ Val(h.response).status # 429
    => /\ h.pc = "rejected"
       /\ h.result.kind = "thrown"
       /\ h.result.status = Val(h.response).status
       /\ h.result.statusText = Val(h.response).statusText

\* C4: an invocation whose latest response is a 429 without a Retry-After
\* header has thrown an error.
MissingRetryAfterThrows ==
  \A c \in CallIds :
    LET h == inv[c] IN
    /\ Finished(h)
    /\ IsSome(h.response)
    /\ Val(h.response).status = 429
    /\ Val(h.response).retryAfter = None
    => /\ h.pc = "rejected"
       /\ h.result.kind = "thrown"

\* C5: a resend happens only as the elapse of a timer set after a 429, and
\* when the Retry-After header of that latest 429 is a number of seconds the
\* timer waited at least that many seconds.
ResendWaits ==
  [][\A c \in CallIds :
       (inv[c].sends >= 1 /\ inv'[c].sends > inv[c].sends) =>
         /\ inv[c].pc = "sleeping"
         /\ inv'[c].sends = inv[c].sends + 1
         /\ IsSome(inv[c].response)
         /\ Val(inv[c].response).status = 429
         /\ LET header == Val(Val(inv[c].response).retryAfter)
            IN  (header # <<>> /\ AllDigits(header)) =>
                   inv[c].timerMs >= 1000 * DigitsValue(header)]_vars
\* A second resend in flight after a 429 with Retry-After: 20.
ResendWaitsWitness ==
  \E c \in CallIds :
    /\ inv[c].pc = "awaitRetry"
    /\ inv[c].sends = 3
    /\ Val(inv[c].response).retryAfter = Some(<<"2", "0">>)
    /\ inv[c].timerMs = 20000

\* The names the configuration registers.
Registered == {apiInfo.endpoints[i].name : i \in DOMAIN apiInfo.endpoints}
Started(h) == h.pc \notin {"idle", "off"}

\* C6: an invocation with a name that is not registered has resolved with
\* {error: 'endpoint not found', endpoint: name} and has called the
\* transport not once.
UnknownEndpointTagged ==
  \A c \in CallIds :
    LET h == inv[c] IN
    (Started(h) /\ h.args.endpoint \notin Registered) =>
      /\ h.pc = "resolved"
      /\ h.result.kind = "value"
      /\ h.result.error = "endpoint not found"
      /\ h.result.endpoint = h.args.endpoint
      /\ h.sends = 0

\* The default body the configuration gives the endpoint of an invocation.
DefaultBodyOf(h) ==
  IF apiInfo.defaultParams = None THEN None
  ELSE DefaultParamsLookup(Val(apiInfo.defaultParams), h.args.endpoint).body
KeysOf(body) == IF IsSome(body) THEN Keys(Val(body)) ELSE {}

\* C7: when a caller body or a default body exists, the resolved body has
\* the keys of both; a key of the caller body carries the caller's value
\* (a nested object whole), a key of the default alone the default's value.
ShallowMerge ==
  \A c \in CallIds :
    LET h == inv[c]
        caller == h.args.body
        default == DefaultBodyOf(h)
    IN  (h.sends > 0 /\ (IsSome(caller) \/ IsSome(default))) =>
          /\ IsSome(h.requestBody)
          /\ Keys(Val(h.requestBody)) = KeysOf(caller) \cup KeysOf(default)
          /\ \A key \in KeysOf(caller) :
               GetProp(Val(h.requestBody), key) = GetProp(Val(caller), key)
          /\ \A key \in KeysOf(default) \ KeysOf(caller) :
               GetProp(Val(h.requestBody), key) = GetProp(Val(default), key)
\* Default {a: 1, b: {x: 1}} and caller {b: {y: 2}} give {a: 1, b: {y: 2}}.
ShallowMergeWitness ==
  \E c \in CallIds :
    /\ inv[c].sends > 0
    /\ inv[c].args.body = Some(<<E("b", NestedY)>>)
    /\ DefaultBodyOf(inv[c]) = Some(<<E("a", BNum(1)), E("b", NestedX)>>)
    /\ inv[c].requestBody = Some(<<E("a", BNum(1)), E("b", NestedY)>>)

\* The method of the endpoint an invocation resolved, and whether the
\* request it built carries a body.
MethodOf(h) == EndpointLookup(api.endpoints, h.args.endpoint).method
HasBody(h) == IsSome(Val(h.request).options.body)
BodyExpected(h) ==
  MethodOf(h) # Some("GET") /\ (IsSome(h.args.body) \/ IsSome(DefaultBodyOf(h)))

TemplateOf(h) == Val(EndpointLookup(api.endpoints, h.args.endpoint).path)
ParamsOf(h) ==
  LET given == IF IsSome(h.args.params) THEN h.args.params
               ELSE DefaultParamsLookup(api.defaultParams, h.args.endpoint).params
  IN  IF IsSome(given) THEN Val(given) ELSE <<>>

\* A placeholder token is a colon and the letters that follow it.
IsNameChar(ch) == ch \notin {"/", ":"}
NameAt(str, i) ==
  LET n == CHOOSE m \in 0..(Len(str) - i) :
             /\ \A j \in 1..m : IsNameChar(str[i + j])
             /\ (i + m < Len(str) => ~IsNameChar(str[i + m + 1]))
  IN  SubSeq(str, i + 1, i + n)
\* The names of the placeholder tokens of a template, one per occurrence.
Placeholders(str) == {<<i, NameAt(str, i)>> : i \in {j \in DOMAIN str : str[j] = ":"}}
PlaceholderNames(str) == {p[2] : p \in Placeholders(str)}

RECURSIVE TokenFill(_, _, _)
\* The template with each placeholder token whose name is a key of params
\* replaced by the stringified value, and every other token verbatim.
TokenFill(str, params, i) ==
  IF i > Len(str) THEN <<>>
  ELSE IF str[i] # ":" THEN <<str[i]>> \o TokenFill(str, params, i + 1)
  ELSE LET name == NameAt(str, i)
       IN  (IF Has(params, name) THEN toString(GetProp(params, name))
            ELSE <<":">> \o name)
           \o TokenFill(str, params, i + Len(name) + 1)

IsProperPrefix(a, b) == Len(a) < Len(b) /\ SubSeq(b, 1, Len(a)) = a

\* C9: when every placeholder of the template is named by a key of params
\* or by no prefix of one, the filled path has every occurrence of every
\* `:key` token replaced by the stringified value of params[key].
EveryOccurrenceFilled ==
  \A c \in CallIds :
    LET h == inv[c] IN
    /\ h.sends > 0
    /\ h.args.endpoint \in Registered
    /\ \A name \in PlaceholderNames(TemplateOf(h)) :
         \A key \in Keys(ParamsOf(h)) : ~IsProperPrefix(key, name)
    => h.filledEndpoint = Some(TokenFill(TemplateOf(h), ParamsOf(h), 1))

\* C10: when no key of params names more than one placeholder of the
\* template, every placeholder whose name is not a key of params (a key
\* may be a prefix of the name) stands verbatim in the filled path.
UnmatchedLeftVerbatim ==
  \A c \in CallIds :
    LET h == inv[c] IN
    /\ h.sends > 0
    /\ h.args.endpoint \in Registered
    /\ \A key \in Keys(ParamsOf(h)) :
         Cardinality({p \in Placeholders(TemplateOf(h)) : p[2] = key}) <= 1
    => h.filledEndpoint = Some(TokenFill(TemplateOf(h), ParamsOf(h), 1))

\* C11: when the caller supplies params, an empty or incomplete mapping
\* included, the path is the template filled from the caller's params alone
\* (with an empty mapping, the template itself); when the caller omits
\* params it is the template filled from the endpoint's default params.
ParamsAllOrNothing ==
  \A c \in CallIds :
    LET h == inv[c]
        defaults == DefaultParamsLookup(api.defaultParams, h.args.endpoint).params
    IN  (h.sends > 0 /\ h.args.endpoint \in Registered) =>
          /\ IsSome(h.args.params) =>
               h.filledEndpoint =
                 Some(FillFrom(TemplateOf(h), Val(h.args.params), 1))
          /\ h.args.params = Some(<<>>) =>
               h.filledEndpoint = Some(TemplateOf(h))
          /\ (h.args.params = None /\ IsSome(defaults)) =>
               h.filledEndpoint = Some(FillFrom(TemplateOf(h), Val(defaults), 1))
          /\ (h.args.params = None /\ defaults = None) =>
               h.filledEndpoint = Some(TemplateOf(h))
\* Default params {id: 9}, caller params {idx: 7}: the :id of /:id stays.
ParamsAllOrNothingWitness ==
  \E c \in CallIds :
    /\ inv[c].sends > 0
    /\ IsSome(apiInfo.defaultParams)
    /\ inv[c].args.params = Some(<<E(<<"i", "d", "x">>, Num(7))>>)
    /\ TemplateOf(inv[c]) = <<"/", ":", "i", "d">>
    /\ inv[c].filledEndpoint = Some(<<"/", ":", "i", "d">>)

\* C12 as stated: when the caller supplies a body, the body of the request
\* is the caller's body and nothing of the default body.
DefaultBodyOnlyFallback ==
  \A c \in CallIds :
    LET h == inv[c] IN
    (h.sends > 0 /\ IsSome(h.args.body)) => h.requestBody = h.args.body

\* C12 amended: when the caller omits the body the resolved body is the
\* default body; when the caller supplies one, every top-level key of the
\* default body that the caller's body lacks is still in the resolved body
\* with the default's value, so the resolved body has the caller's keys
\* alone only when the default has no key of its own.
DefaultBodyUnderCaller ==
  \A c \in CallIds :
    LET h == inv[c]
        caller == h.args.body
        default == DefaultBodyOf(h)
    IN  h.sends > 0 =>
          /\ caller = None => h.requestBody = default
          /\ (IsSome(caller) /\ default = None) => h.requestBody = caller
          /\ (IsSome(caller) /\ IsSome(default)) =>
               /\ \A key \in KeysOf(default) \ KeysOf(caller) :
                    /\ Has(Val(h.requestBody), key)
                    /\ GetProp(Val(h.requestBody), key) = GetProp(Val(default), key)
               /\ (Keys(Val(h.requestBody)) = KeysOf(caller))
                    <=> (KeysOf(default) \subseteq KeysOf(caller))
\* Default {a: 1, b: {x: 1}} and caller {a: 2}: the request body is
\* {a: 2, b: {x: 1}}, the default's b with it.
DefaultBodyUnderCallerWitness ==
  \E c \in CallIds :
    /\ inv[c].sends > 0
    /\ inv[c].args.body = Some(<<E("a", BNum(2))>>)
    /\ DefaultBodyOf(inv[c]) = Some(<<E("a", BNum(1)), E("b", NestedX)>>)
    /\ inv[c].requestBody = Some(<<E("a", BNum(2)), E("b", NestedX)>>)

\* Whether a content-type header contains application/json.
ContainsApplicationJson(contentType) ==
  /\ IsSome(contentType)
  /\ \E i \in 1..(Len(Val(contentType)) - Len(ApplicationJson) + 1) :
       SubSeq(Val(contentType), i, i + Len(ApplicationJson) - 1) = ApplicationJson

\* C13: an invocation whose latest response is ok, first send or resend,
\* has resolved: with the parsed JSON when the content type contains
\* application/json and the body parses, with null when it does not parse,
\* and with the text of the body for any other or no content type.
OkDecodedByContentType ==
  \A c \in CallIds :
    LET h == inv[c] IN
    (Finished(h) /\ IsSome(h.response) /\ Val(h.response).status \in 200..299) =>
      LET response == Val(h.response) IN
      /\ h.pc = "resolved"
      /\ h.result.kind = "value"
      /\ IF ContainsApplicationJson(response.contentType)
           THEN IF response.body.parses
                  THEN h.result.decoded = "json" /\ h.result.text = response.body.text
                  ELSE h.result.decoded = "null"
           ELSE h.result.decoded = "text" /\ h.result.text = response.body.text
\* A resend answered ok with application/json; charset=utf-8 and a body
\* that does not parse: resolved with null.
OkDecodedByContentTypeWitness ==
  \E c \in CallIds :
    /\ inv[c].sends = 2
    /\ inv[c].response = Some(JsonBad)
    /\ inv[c].pc = "resolved"
    /\ inv[c].result.decoded = "null"

\* The URL and the method of the request an invocation has built, and the
\* URL its endpoint and params call for.
UrlOf(h) == Val(h.request).url
RequestMethodOf(h) == Val(h.request).options.method
ExpectedUrl(h) ==
  apiInfo.apiBaseUrl \o FillFrom(TemplateOf(h), ParamsOf(h), 1)
OtherMethod(h) ==
  IF IsSome(h.args.other) THEN Val(h.args.other).method ELSE None

\* C14 as stated: every request of an invocation of a registered endpoint,
\* whatever `other` holds, has the base URL followed by the filled path as
\* URL and the method of the endpoint's definition as method.
RequestUrlAndMethod ==
  \A c \in CallIds :
    LET h == inv[c] IN
    (h.sends > 0 /\ h.args.endpoint \in Registered) =>
      /\ UrlOf(h) = ExpectedUrl(h)
      /\ RequestMethodOf(h) = MethodOf(h)
      /\ IsSome(h.wire) => h.wire = h.request

\* C14 amended: every request of an invocation of a registered endpoint
\* has the base URL followed by the filled path as URL; its method is the
\* method of the endpoint's definition when `other` holds no method key,
\* and the method `other` holds when it does.
RequestUrlAndMethodUnlessOther ==
  \A c \in CallIds :
    LET h == inv[c] IN
    (h.sends > 0 /\ h.args.endpoint \in Registered) =>
      /\ UrlOf(h) = ExpectedUrl(h)
      /\ OtherMethod(h) = None => RequestMethodOf(h) = MethodOf(h)
      /\ IsSome(OtherMethod(h)) => RequestMethodOf(h) = OtherMethod(h)
      /\ IsSome(h.wire) => h.wire = h.request
\* The POST endpoint search invoked with other = {method: 'GET'}: the
\* request goes to h/s as a GET.
RequestUrlAndMethodWitness ==
  \E c \in CallIds :
    /\ inv[c].pc = "awaitFirst"
    /\ inv[c].args.endpoint = "search"
    /\ OtherMethod(inv[c]) = Some("GET")
    /\ Val(inv[c].wire).url = <<"h", "/", "s">>
    /\ Val(inv[c].wire).options.method = Some("GET")

\* The headers of the request an invocation has built, and the headers its
\* `other` options hold.
RequestHeadersOf(h) ==
  LET headers == Val(h.request).options.headers
  IN  IF IsSome(headers) THEN Val(headers) ELSE <<>>
OtherHeaders(h) ==
  IF IsSome(h.args.other) /\ IsSome(Val(h.args.other).headers)
    THEN Val(Val(h.args.other).headers) ELSE <<>>
ConfiguredHeaders ==
  IF IsSome(apiInfo.headers) THEN Val(apiInfo.headers) ELSE <<>>

\* C15: the headers of every request hold each configured header with its
\* configured value (unless `other` gives that very name another value)
\* and each header of `other` with the value `other` gives it.
MergedHeaders ==
  \A c \in CallIds :
    LET h == inv[c] IN
    h.sends > 0 =>
      /\ \A key \in Keys(OtherHeaders(h)) :
           /\ Has(RequestHeadersOf(h), key)
           /\ GetProp(RequestHeadersOf(h), key) = GetProp(OtherHeaders(h), key)
      /\ \A key \in Keys(ConfiguredHeaders) \ Keys(OtherHeaders(h)) :
           /\ Has(RequestHeadersOf(h), key)
           /\ GetProp(RequestHeadersOf(h), key) = GetProp(ConfiguredHeaders, key)

\* C16: for every endpoint name of the configuration the instance has a
\* callable method of that name bound to that name, and a call of it has
\* called fetchData of the fetcher with that name and the caller's body,
\* params and other.
EveryEndpointHasMethod ==
  /\ \A name \in Registered :
       /\ Has(instance, name)
       /\ GetProp(instance, name) = createEndpointMethod(name)
  /\ \A c \in CallIds :
       LET h == inv[c] IN
       (Started(h) /\ h.args.via = "method" /\ h.args.endpoint \in Registered) =>
         h.called = Some(FetchDataArgs(h.args.endpoint, h.args))

\* The API definitions given to the wrapper, in the order given, and the
\* fetcher an interaction was dispatched to.
GivenInfos == apiInfo.items
DispatchedTo(h) == GetProp(GetProp(instance, "apis"), Val(h.theApiName))

\* C17: with several API definitions given, an interaction with apiName
\* equal to the name of one of them has been dispatched to the fetcher
\* built from that definition, and an interaction without apiName to the
\* fetcher built from the first definition.
DispatchByName ==
  \A c \in CallIds :
    LET h == inv[c] IN
    (Started(h) /\ Len(GivenInfos) > 1) =>
      /\ \A i \in DOMAIN GivenInfos :
           h.args.apiName = GivenInfos[i].name =>
             /\ IsSome(h.theApiName)
             /\ DispatchedTo(h) = WrapperFetcher(GivenInfos[i])
      /\ h.args.apiName = None =>
           /\ IsSome(h.theApiName)
           /\ DispatchedTo(h) = WrapperFetcher(GivenInfos[1])

\* A response after which the code may send again: a 429 that carries a
\* Retry-After header.
AsksRetry(response) ==
  /\ response.status = 429
  /\ IsSome(response.retryAfter)
  /\ Val(response.retryAfter) # <<>>

\* C18: a transport call that is not the first of its invocation follows a
\* 429 response with a Retry-After header, and an invocation that has got
\* an ok response, a non-ok response other than 429 or a 429 without
\* Retry-After is finished: it calls the transport no more.
ResendOnlyAfterRetryAfter ==
  [][\A c \in CallIds :
       /\ (inv[c].sends >= 1 /\ inv'[c].sends # inv[c].sends) =>
            /\ IsSome(inv[c].response)
            /\ AsksRetry(Val(inv[c].response))
       /\ (IsSome(inv'[c].response) /\ ~AsksRetry(Val(inv'[c].response))) =>
            /\ Finished(inv'[c])
            /\ inv'[c].wire = None
       /\ Finished(inv[c]) => inv'[c] = inv[c]]_vars
\* A resend after a 429 with Retry-After answered with a 500: finished
\* after two transport calls.
ResendOnlyAfterRetryAfterWitness ==
  \E c \in CallIds :
    /\ inv[c].sends = 2
    /\ inv[c].response = Some(ServerError)
    /\ Finished(inv[c])

\* C19: once an invocation has sent, the request it built never changes,
\* and every transport call, the first and each resend, is handed exactly
\* that request: same URL, method, headers and serialized body.
ResendSameRequest ==
  [][\A c \in CallIds :
       /\ inv[c].sends >= 1 => inv'[c].request = inv[c].request
       /\ inv'[c].sends # inv[c].sends =>
            /\ inv'[c].sends = inv[c].sends + 1
            /\ IsSome(inv'[c].request)
            /\ inv'[c].wire = inv'[c].request]_vars
\* The resend of a POST with a body and the configured headers: the same
\* serialized body is on the wire a second time.
ResendSameRequestWitness ==
  \E c \in CallIds :
    /\ inv[c].pc = "awaitRetry"
    /\ inv[c].sends = 2
    /\ inv[c].args.endpoint = "search"
    /\ IsSome(inv[c].requestBody)
    /\ Val(inv[c].wire).options.body = Some(JSONstringify(Val(inv[c].requestBody)))
    /\ Val(inv[c].wire).options.headers = Some(StaticHeaders)

\* The retry budget an invocation has left by its own sends alone.
OwnBudget(h) ==
  IF h.pc = "awaitFirst" THEN h.retryTimes
  ELSE IF h.pc = "sleeping" THEN h.retryTimes - (h.sends - 1)
  ELSE IF h.pc = "awaitRetry" THEN h.retryTimes - (h.sends - 2)
  ELSE h.retryCount

\* C20: with two invocations of one instance in flight, a step of one (a
\* send, a response, a resend) leaves the retry budget, the sends and the
\* whole handler of the other as they were, and the budget each has left
\* is the instance's retryTimes less its own resends.
RetryStateLocal ==
  [][\A c \in CallIds : \A d \in CallIds \ {c} :
       /\ inv'[c] # inv[c] => inv'[d] = inv[d]
       /\ inv'[c].sends > 0 =>
            /\ inv'[c].retryTimes = api.retryTimes
            /\ inv'[c].retryCount = OwnBudget(inv'[c])
            /\ inv'[c].sends <= 1 + api.retryTimes]_vars
\* Both invocations rate limited throughout: each has made its retryTimes
\* resends and each is finished with its budget used up.
RetryStateLocalWitness ==
  /\ api.retryTimes = 2
  /\ \A c \in CallIds :
       /\ inv[c].sends = 3
       /\ inv[c].retryCount = 0
       /\ inv[c].pc = "resolved"

\* C21: no step of an invocation, whatever it ends in, changes the
\* fetcher's endpoint registry, default-parameter table, static headers,
\* base URL or retry count, nor the configuration and the members of the
\* instance: the fetcher stays as the constructor built it.
InvocationLeavesInstance ==
  [][/\ api'.endpoints = api.endpoints
     /\ api'.defaultParams = api.defaultParams
     /\ api'.headers = api.headers
     /\ api'.apiBaseUrl = api.apiBaseUrl
     /\ api'.retryTimes = api.retryTimes
     /\ apiInfo' = apiInfo
     /\ instance' = instance
     /\ api' = API(apiInfo')]_vars
\* An invocation with a caller body over a default body, rate limited
\* until its budget of one resend is used up: resolved empty, and the
\* default body and the retry count of the fetcher are as configured.
InvocationLeavesInstanceWitness ==
  \E c \in CallIds :
    /\ inv[c].pc = "resolved"
    /\ inv[c].result.kind = "undefined"
    /\ inv[c].sends = 2
    /\ inv[c].args.endpoint = "search"
    /\ inv[c].args.body = Some(<<E("a", BNum(2))>>)
    /\ DefaultBodyOf(inv[c]) = Some(<<E("a", BNum(1)), E("b", NestedX)>>)
    /\ api.retryTimes = 1
    /\ api = API(apiInfo)

\* An invocation that has been started and has not settled.
InFlight(h) == Started(h) /\ ~Finished(h)

\* C22: when every transport call is answered and every timer elapses, an
\* invocation that has been started is eventually finished (resolved with
\* a value, resolved empty, or thrown), and meanwhile it has never sent
\* more than one time plus its retry budget.
InvocationCompletes ==
  \A c \in CallIds :
    /\ [](inv[c].sends <= 1 + api.retryTimes)
    /\ InFlight(inv[c]) ~> Finished(inv[c])
\* An invocation rate limited at every send with the default budget: it
\* is finished, empty, after six sends.
InvocationCompletesWitness ==
  \E c \in CallIds :
    /\ \A r \in transport : r.status = 429
    /\ api.retryTimes = 5
    /\ inv[c].sends = 6
    /\ Finished(inv[c])
    /\ inv[c].result.kind = "undefined"

====
